---- MODULE Spec2Model ----
(***************************************************************************)
(* A model of src/hypergrep/lib/c/hyperscanner.c: the driver loop of       *)
(* main(), one hyperscan() call per file, the read loop of hyperscan_gz()  *)
(* and the batching callback hs_callback().                                *)
(*                                                                         *)
(* Bytes are one-character strings: "0" is the zero byte, "n" the newline, *)
(* "a" and "b" are text, "?" is a byte of malloc'ed memory that was never  *)
(* written (its value is fixed the first time the program reads it).       *)
(* Sequences are 1-based: C offset k of a buffer is index k + 1 here.      *)
(***************************************************************************)
EXTENDS Integers, Sequences, FiniteSets, TLC

(* ------------------------------ bounds -------------------------------- *)
\* Number of bytes in the file of a run over one file.
MaxFileLen == 4
\* Total number of bytes in the files of a run over several files.
MaxRunBytes == 2
\* buffer_size (max_line_length) ranges over 2..MaxBufferSize.
MaxBufferSize == 4
\* buffer_count (batch capacity) ranges over 0..MaxBufferCount.
MaxBufferCount == 2
\* max_match_count (quota) ranges over 0..MaxQuota.
MaxQuota == 2
\* Number of input files on main()'s command line, 1..MaxFiles.
MaxFiles == 2
\* Bytes a string read may run past the end of the read buffer.
MaxOverread == 2

(* ------------------------- program constants -------------------------- *)
HYPERSCANNER_COMPILE_MEM == 1
HYPERSCANNER_COMPILE == 2
HYPERSCANNER_SCRATCH == 3
HYPERSCANNER_DB == 4
HYPERSCANNER_STATE_MEM == 5
HYPERSCANNER_GZ_OPEN == 6
HYPERSCANNER_SCAN == 7
\* main(): the length of its patterns, pattern_flags and pattern_ids arrays.
PatternElements == 1

(* ------------------------------- bytes -------------------------------- *)
Alphabet == {"0", "n", "a", "b"}

SeqsUpTo(S, n) == UNION {[1..k -> S] : k \in 0..n}

Min(x, y) == IF x < y THEN x ELSE y

\* The file contents a run may open: at most `n` bytes.
FileContents(n) == SeqsUpTo(Alphabet, n)

\* What a never-written byte may read as: the zero byte, or a non-zero byte
\* (the model takes "a", which a pattern matches).
Garbage == {"0", "a"}

\* What lies in memory after the end of the read buffer, as far as a string
\* read can run into it: non-zero bytes up to a zero byte.
Tails == SeqsUpTo(Garbage \ {"0"}, MaxOverread)

(* ------------------------------ Matcher ------------------------------- *)
\* The compiled pattern set: the literal "a" with id 0, the literal "b" with id 1.
Patterns == << [byte |-> "a", id |-> 0], [byte |-> "b", id |-> 1] >>

RECURSIVE IdsAt(_, _)
\* The ids of the patterns that match byte `c`, from pattern k on.
IdsAt(c, k) ==
    IF k > Len(Patterns) THEN << >>
    ELSE (IF Patterns[k].byte = c THEN << Patterns[k].id >> ELSE << >>)
         \o IdsAt(c, k + 1)

RECURSIVE Matches(_)
\* hs_scan over `text`: the ids it hands to the callback, in order of offset.
Matches(text) ==
    IF text = << >> THEN << >>
    ELSE IdsAt(Head(text), 1) \o Matches(Tail(text))

(* ------------------------------ LineSource ---------------------------- *)
RECURSIVE TakeLine(_, _)
\* The bytes gzgets() takes from `rest` when it may take at most `room`:
\* up to and including the first newline.
TakeLine(rest, room) ==
    IF room = 0 \/ rest = << >> THEN << >>
    ELSE IF Head(rest) = "n" THEN << "n" >>
    ELSE << Head(rest) >> \o TakeLine(Tail(rest), room - 1)

\* gzgets(file, buf, len) writes the bytes taken and a terminating zero byte at
\* the start of buf and leaves the rest of buf as it was.
GzgetsWrite(b, taken) ==
    [k \in 1..Len(b) |->
        IF k <= Len(taken) THEN taken[k]
        ELSE IF k = Len(taken) + 1 THEN "0"
        ELSE b[k]]

(* --------------------------- C string reads --------------------------- *)
\* Memory `b` with its never-written bytes read as `g` gives them.
Resolve(b, g) == [k \in 1..Len(b) |-> IF b[k] = "?" THEN g[k] ELSE b[k]]

UninitPos(b) == {k \in 1..Len(b) : b[k] = "?"}

\* Lines 207-214 left out: state->line stays at the start of the buffer.
StripStartNone(v) == 1

\* The index the stripping loop of hyperscan_gz() leaves state->line at: the
\* first non-zero byte at C offsets 1..buffer_size-1 when buf[0] is zero,
\* the start of the buffer otherwise or when there is none.
StripStart(v) ==
    IF v[1] /= "0" THEN 1
    ELSE IF \E k \in 2..Len(v) : v[k] /= "0"
         THEN CHOOSE k \in 2..Len(v) : v[k] /= "0" /\ \A j \in 2..(k - 1) : v[j] = "0"
         ELSE 1

\* The bytes the stripping loop reads.
StripReads(v) ==
    IF v[1] /= "0" THEN {1}
    ELSE IF StripStart(v) = 1 THEN 1..Len(v) ELSE 1..StripStart(v)

\* Whether the string at index `off` of `v` has its terminator inside `v`.
Terminated(v, off) == \E k \in off..Len(v) : v[k] = "0"

\* The index of the terminator of the string at `off` (Len(v) + 1 when the
\* string runs off the end of `v`).
StrEnd(v, off) ==
    IF Terminated(v, off)
    THEN CHOOSE k \in off..Len(v) : v[k] = "0" /\ \A j \in off..(k - 1) : v[j] /= "0"
    ELSE Len(v) + 1

\* The string at index `off` of `v`, up to its terminator; `tail` is what a
\* read that runs off the end of `v` finds there.
CStr(v, off, tail) ==
    SubSeq(v, off, StrEnd(v, off) - 1)
        \o (IF Terminated(v, off) THEN << >> ELSE tail)

\* strcpy(dst, text): the bytes of `text` and a terminating zero byte, written
\* from the start of the storage `dst`; the bytes behind them keep their value.
\* A result longer than `dst` is a write past the end of the allocation.
Strcpy(dst, text) ==
    [k \in 1..(IF Len(dst) > Len(text) + 1 THEN Len(dst) ELSE Len(text) + 1) |->
        IF k <= Len(text) THEN text[k]
        ELSE IF k = Len(text) + 1 THEN "0"
        ELSE dst[k]]

(* ------------------------------- state -------------------------------- *)
VARIABLES
    pc,                \* where the program is
    nfiles,            \* argc - 2: the number of input files
    i,                 \* main(): index of the next file, counted from 0 (C's i - 2)
    main_ret,          \* main(): ret
    buffer_size,       \* hyperscan() argument
    buffer_count_arg,  \* hyperscan() argument buffer_count as the caller gave it
    max_match_count,   \* hyperscan() argument
    buffer_count,      \* hyperscan(): buffer_count after the quota adjustment
    ret,               \* hyperscan(): ret
    state,             \* hyperscan(): the state pointer, "none" | "NULL" | "held" | "freed"
    match_count,       \* state->match_count
    line_number,       \* state->line_number
    line,              \* state->line: 0 for NULL, else the index into buf
    max_result_index,  \* state->max_result_index (-1 stands for UINT_MAX)
    result_index,      \* state->result_index
    results_ptr,       \* state->results, the pointer: "none" | "NULL" | "held"
    results,           \* state->results, the slots it points to
    results_allocated, \* hyperscan(): results_allocated
    db,                \* hyperscan(): db, "NULL" | "held" | "freed"
    scratch,           \* hyperscan(): scratch, likewise
    uninit,            \* hyperscan(): the locals the path taken never initialised
    input_file,        \* hyperscan_gz(): "none" | "NULL" | "open" | "closed"
    rest,              \* the bytes of the open file not yet read
    buf_ptr,           \* hyperscan_gz(): buf, the pointer: "none" | "NULL" | "held" | "freed"
    buf,               \* the memory buf points to
    beyond,            \* the memory behind buf, << "?" >> until a read runs into it
    gz_ret,            \* hyperscan_gz(): ret
    pending,           \* the ids hs_scan has found and not yet handed to hs_callback
    released,          \* how often each resource of this call has been released
    acquired,          \* the resources this call has acquired
    bytes_left,        \* input bytes the run may still open (the bound on the input)
    rets,              \* history: what each hyperscan() call returned, in order
    run_matches,       \* history: the matches reported in the calls that have returned
    scans,             \* history: the hs_scan calls of this hyperscan() call
    reported,          \* history: the hs_callback invocations of this call
    delivered,         \* history: the batches handed to the batch handler in this call
    ub                 \* history: the undefined operations of this call

vars == << pc, nfiles, i, main_ret, buffer_size, buffer_count_arg, max_match_count,
           buffer_count, ret, state, match_count, line_number, line,
           max_result_index, result_index, results_ptr, results, results_allocated,
           db, scratch, uninit, input_file, rest, buf_ptr, buf, beyond, gz_ret,
           pending, released, acquired, bytes_left, rets, run_matches, scans,
           reported, delivered, ub >>

cfgvars == << nfiles, buffer_size, buffer_count_arg, max_match_count >>
mainvars == << i, main_ret, rets, run_matches >>
localvars == << buffer_count, state, results_allocated, db, scratch, uninit >>
structvars == << match_count, line_number, line, max_result_index, result_index,
                 results_ptr, results >>
gzvars == << input_file, rest, buf_ptr, buf, beyond, gz_ret >>
histvars == << scans, reported, delivered >>

\* The resources of one hyperscan() call; line k is the line buffer of slot k.
Resources ==
    { << "state", 0 >>, << "results", 0 >>, << "db", 0 >>, << "scratch", 0 >>,
      << "buf", 0 >>, << "file", 0 >> }
    \cup { << "line", k >> : k \in 0..MaxBufferCount }

NoneReleased == [r \in Resources |-> 0]

Release(rel, rs) == [r \in Resources |-> IF r \in rs THEN rel[r] + 1 ELSE rel[r]]

\* The state main() starts in, for `n` input files of `bytes` bytes in all.
\* hyperscan() is the library's entry point as well: the buffer_size,
\* buffer_count and max_match_count of the calls are any values in the bounds,
\* where main() passes 65535, 256 and 0, and the patterns are Patterns.
Start(n, bytes) ==
    /\ pc = "main"
    /\ nfiles = n
    /\ bytes_left = bytes
    /\ i = 0
    /\ main_ret = 0
    /\ buffer_size \in 2..MaxBufferSize
    /\ buffer_count_arg \in 0..MaxBufferCount
    /\ max_match_count \in 0..MaxQuota
    /\ buffer_count = 0
    /\ ret = 0
    /\ state = "none"
    /\ match_count = 0
    /\ line_number = 0
    /\ line = 0
    /\ max_result_index = 0
    /\ result_index = -1
    /\ results_ptr = "none"
    /\ results = << >>
    /\ results_allocated = 0
    /\ db = "NULL"
    /\ scratch = "NULL"
    /\ uninit = {}
    /\ input_file = "none"
    /\ rest = << >>
    /\ buf_ptr = "none"
    /\ buf = << >>
    /\ beyond = << "?" >>
    /\ gz_ret = 0
    /\ pending = << >>
    /\ released = NoneReleased
    /\ acquired = {}
    /\ rets = << >>
    /\ run_matches = 0
    /\ scans = << >>
    /\ reported = << >>
    /\ delivered = << >>
    /\ ub = {}

\* A run over one file.
Init == Start(1, MaxFileLen)

\* A run over one or more files, with the smallest line length.
InitMain == (\E n \in 1..MaxFiles : Start(n, MaxRunBytes)) /\ buffer_size = 2

(* ------------------------- hyperscan(): set-up ------------------------ *)
\* The adjustment of lines 259-262 without its comparison to buffer_count.
AdjustedCountAlwaysQuota(count, quota) ==
    IF quota > 0 THEN quota ELSE count

\* Lines 259-262: a quota below the batch capacity lowers the capacity to it.
AdjustedCount(count, quota) ==
    IF quota > 0 /\ quota < count THEN quota ELSE count

\* Line 276: buffer_count - 1 stored in an unsigned int. The model keeps the
\* representative in -1..MaxBufferCount: -1 stands for UINT_MAX, which no
\* result_index of the model reaches.
MaxResultIndex(count) == count - 1

\* Line 277 without its + 1: one slot fewer than the batch needs.
MaxResultsShort(mri) == mri

\* Line 277: max_result_index + 1, back in an int (UINT_MAX + 1 wraps to 0).
MaxResults(mri) == mri + 1

\* A slot of the results array: id and line_number are -1 until written, the
\* line buffer of `size` bytes is malloc'ed and not yet written.
FreshSlot(size) ==
    [id |-> -1, line_number |-> -1, line |-> [j \in 1..size |-> "?"]]

\* The results array after the allocation loop of lines 285-292 gave the first
\* `allocated` of `n` slots their line buffer.
Slots(n, allocated) ==
    [k \in 1..n |-> FreshSlot(IF k <= allocated THEN buffer_size ELSE 0)]

LineResources(n) == { << "line", k >> : k \in 0..(n - 1) }

\* The loop of line 341 ending at the first call that failed.
LoopContinuesUntilError(idx, n) == idx < n /\ main_ret = 0

\* main(), line 341: the loop condition, with idx = i - 2 and n = argc - 2.
LoopContinues(idx, n) == idx < n

\* main(), lines 343-352, for the file of index idx (C's i - 2): the arrays
\* patterns, pattern_flags and pattern_ids are declared in the loop body with
\* PatternElements elements and no initialiser; lines 350-351 write element idx
\* of pattern_flags and pattern_ids, and hyperscan() is given the arrays with
\* elements = 1 and reads element 0 of each. From the second file on the writes
\* fall outside the arrays, and element 0 is read without having been written.
MainUb(idx) ==
    (IF idx >= PatternElements THEN {"main_oob_write"} ELSE {})
    \cup (IF idx /= 0 THEN {"main_uninit_read"} ELSE {})

\* What every path through the set-up does first: a new call, its histories
\* empty, the fields the path does not reach left as they are.
Enter(path_uninit) ==
    /\ pc = "main"
    /\ LoopContinues(i, nfiles)
    /\ buffer_count' = AdjustedCount(buffer_count_arg, max_match_count)
    /\ uninit' = path_uninit
    /\ released' = NoneReleased
    /\ scans' = << >>
    /\ reported' = << >>
    /\ delivered' = << >>
    /\ pending' = << >>
    /\ input_file' = "none"
    /\ rest' = << >>
    /\ buf_ptr' = "none"
    /\ buf' = << >>
    /\ beyond' = << "?" >>
    /\ gz_ret' = 0
    /\ ub' = MainUb(i)
    /\ UNCHANGED << cfgvars, mainvars, bytes_left >>

\* Lines 271-272 and 275 left out: the counters and the fill index keep the
\* values the call before left in them.
InitStateKeepsCounts ==
    /\ state' = "held"
    /\ match_count' = match_count
    /\ line_number' = line_number
    /\ line' = 0
    /\ result_index' = result_index
    /\ max_result_index' = MaxResultIndex(buffer_count')

\* Lines 271-277: the fields of a state that was allocated.
InitState ==
    /\ state' = "held"
    /\ match_count' = 0
    /\ line_number' = 0
    /\ line' = 0
    /\ result_index' = -1
    /\ max_result_index' = MaxResultIndex(buffer_count')

\* There is no state struct: its fields are nowhere.
NoStruct ==
    /\ match_count' = 0
    /\ line_number' = 0
    /\ line' = 0
    /\ result_index' = -1
    /\ max_result_index' = 0
    /\ results_ptr' = "none"
    /\ results' = << >>

\* The locals a path never initialises hold no value the model tracks; what
\* reading them gives is decided where they are read (Cleanup, CleanupCrash).
NoLocals ==
    /\ results_allocated' = 0
    /\ db' = "NULL"
    /\ scratch' = "NULL"

\* Lines 266-270: malloc of the state fails.
HyperscanStateMem ==
    /\ Enter({"results_allocated", "db", "scratch"})
    /\ state' = "NULL"
    /\ NoStruct
    /\ NoLocals
    /\ ret' = HYPERSCANNER_STATE_MEM
    /\ acquired' = {}
    /\ pc' = "cleanup"

\* Lines 278-282: malloc of the results array fails (for a size of 0 malloc may
\* return NULL as well as a pointer).
HyperscanResultsMem ==
    /\ Enter({"results_allocated", "db", "scratch"})
    /\ InitState
    /\ results_ptr' = "NULL"
    /\ results' = << >>
    /\ NoLocals
    /\ ret' = HYPERSCANNER_COMPILE_MEM
    /\ acquired' = { << "state", 0 >> }
    /\ pc' = "cleanup"

\* Lines 284-290: malloc of the line buffer of slot k fails.
HyperscanLineMem ==
    /\ Enter({"db", "scratch"})
    /\ InitState
    /\ \E k \in 0..(MaxResults(max_result_index') - 1) :
        /\ results_ptr' = "held"
        /\ results' = Slots(MaxResults(max_result_index'), k)
        /\ results_allocated' = k
        /\ acquired' = { << "state", 0 >>, << "results", 0 >> } \cup LineResources(k)
    /\ db' = "NULL"
    /\ scratch' = "NULL"
    /\ ret' = HYPERSCANNER_COMPILE_MEM
    /\ pc' = "cleanup"

\* Lines 278-292 when every allocation succeeds.
AllocResults ==
    /\ InitState
    /\ results_ptr' = "held"
    /\ results' = Slots(MaxResults(max_result_index'), MaxResults(max_result_index'))
    /\ results_allocated' = MaxResults(max_result_index')

\* Lines 294-300: init_hs_db() fails.
HyperscanDb ==
    /\ Enter({})
    /\ AllocResults
    /\ db' = "NULL"
    /\ scratch' = "NULL"
    /\ ret' = HYPERSCANNER_DB
    /\ acquired' = { << "state", 0 >>, << "results", 0 >> }
                       \cup LineResources(results_allocated')
    /\ pc' = "cleanup"

\* Lines 301-305: hs_alloc_scratch() fails.
HyperscanScratch ==
    /\ Enter({})
    /\ AllocResults
    /\ db' = "held"
    /\ scratch' = "NULL"
    /\ ret' = HYPERSCANNER_SCRATCH
    /\ acquired' = { << "state", 0 >>, << "results", 0 >>, << "db", 0 >> }
                       \cup LineResources(results_allocated')
    /\ pc' = "cleanup"

\* Lines 259-305 when every prerequisite succeeds: on to hyperscan_gz().
HyperscanOk ==
    /\ Enter({})
    /\ AllocResults
    /\ db' = "held"
    /\ scratch' = "held"
    /\ ret' = 0
    /\ acquired' = { << "state", 0 >>, << "results", 0 >>, << "db", 0 >>,
                     << "scratch", 0 >> } \cup LineResources(results_allocated')
    /\ pc' = "gz_open"

(* ----------------------------- hyperscan_gz() -------------------------- *)
\* Lines 187-197: gzopen() and the malloc of the read buffer. A failed open
\* only sets ret; the function goes on to the read loop.
GzOpen ==
    /\ pc = "gz_open"
    /\ \E opened \in BOOLEAN, got_buf \in BOOLEAN :
        /\ IF opened
           THEN /\ input_file' = "open"
                /\ \E content \in FileContents(bytes_left) :
                    /\ rest' = content
                    /\ bytes_left' = bytes_left - Len(content)
                /\ gz_ret' = 0
           ELSE /\ input_file' = "NULL"
                /\ rest' = << >>
                /\ bytes_left' = bytes_left
                /\ gz_ret' = HYPERSCANNER_GZ_OPEN
        /\ IF got_buf
           THEN /\ buf_ptr' = "held"
                /\ buf' = [k \in 1..buffer_size |-> "?"]
           ELSE /\ buf_ptr' = "NULL"
                /\ buf' = << >>
        /\ acquired' = acquired \cup (IF opened THEN { << "file", 0 >> } ELSE {})
                                \cup (IF got_buf THEN { << "buf", 0 >> } ELSE {})
    /\ pc' = "read"
    /\ UNCHANGED << cfgvars, mainvars, localvars, structvars, ret, beyond, pending,
                    released, histvars, ub >>

\* gzgets() returns NULL for a NULL file, a NULL buffer and at end of input.
GzgetsNull == input_file /= "open" \/ buf_ptr /= "held" \/ rest = << >>

\* Lines 199-203: gzgets() returns NULL, the read loop ends.
ReadEnd ==
    /\ pc = "read"
    /\ GzgetsNull
    /\ line' = 0
    /\ pc' = "gz_close"
    /\ UNCHANGED << cfgvars, mainvars, localvars, ret, match_count, line_number,
                    max_result_index, result_index, results_ptr, results, gzvars,
                    pending, released, acquired, bytes_left, histvars, ub >>

\* The bytes the program reads of `v` to strip and measure the line at `off`.
LineReads(v, off) == StripReads(v) \cup off..Min(StrEnd(v, off), Len(v))

\* Lines 199-217: gzgets() returns a line, the leading zero bytes are stripped,
\* and hs_scan() is called on the string at state->line.
ReadLine ==
    /\ pc = "read"
    /\ ~GzgetsNull
    /\ LET taken == TakeLine(rest, buffer_size - 1)
           written == GzgetsWrite(buf, taken)
       IN  \E g \in [UninitPos(written) -> Garbage] :
            LET v == Resolve(written, g)
                off == StripStart(v)
                reads == LineReads(v, off)
            IN  /\ \E tail \in (IF Terminated(v, off) \/ beyond /= << "?" >>
                                THEN {beyond} ELSE Tails) :
                    /\ beyond' = tail
                    /\ scans' = Append(scans,
                                  [line_number |-> line_number, raw |-> taken,
                                   text |-> CStr(v, off, tail), found |-> 0,
                                   failed |-> FALSE])
                    /\ pending' = Matches(CStr(v, off, tail))
                /\ rest' = SubSeq(rest, Len(taken) + 1, Len(rest))
                /\ buf' = [k \in 1..Len(v) |-> IF k \in reads THEN v[k] ELSE written[k]]
                /\ line' = off
                /\ ub' = ub \cup (IF reads \cap UninitPos(written) /= {}
                                  THEN {"uninit_read"} ELSE {})
                            \cup (IF Terminated(v, off) THEN {} ELSE {"overread"})
    /\ pc' = "scan"
    /\ UNCHANGED << cfgvars, mainvars, localvars, ret, match_count, line_number,
                    max_result_index, result_index, results_ptr, results,
                    input_file, buf_ptr, gz_ret, released, acquired, bytes_left,
                    reported, delivered >>

(* ------------------------------ hs_callback() -------------------------- *)
\* Line 92 as an assignment of the pointer state->line instead of a copy: the
\* handler reads whatever the read buffer holds when the batch is delivered.
SlotLineAliased(slot) ==
    IF buf = << >> \/ line = 0 THEN << >> ELSE CStr(buf, line, beyond)

\* Lines 107-112: the string the handler finds in a record's line buffer.
SlotLine(slot) == CStr(slot.line, 1, << >>)

\* What the batch handler reads of the first `count` slots: each record's id,
\* line_number and the string in its line buffer.
Batch(slots, count, from) ==
    [count |-> count,
     from |-> from,
     recs |-> [k \in 1..count |->
                 [id |-> slots[k].id,
                  line_number |-> slots[k].line_number,
                  line |-> SlotLine(slots[k])]]]

\* Lines 90-92: the write of slot `ri` (C index): id, line_number and a copy of
\* the string at state->line. A slot behind the end of the array is written
\* behind the end of the array.
WriteSlot(slots, ri, id, ln, text) ==
    IF ri + 1 <= Len(slots)
    THEN [slots EXCEPT ![ri + 1] =
            [id |-> id, line_number |-> ln, line |-> Strcpy(slots[ri + 1].line, text)]]
    ELSE Append(slots, [id |-> id, line_number |-> ln, line |-> Strcpy(<< >>, text)])

\* The check of line 95 one slot early.
BatchFullEarly(ri, mri) == ri + 1 = mri

\* The check of line 95 one slot late.
BatchFullLate(ri, mri) == ri = mri + 1

\* Line 95: the batch is full.
BatchFull(ri, mri) == ri = mri

\* Whether the write of slot `ri` stays inside the results array and inside
\* the slot's line buffer.
WriteInBounds(slots, ri, text) ==
    /\ ri + 1 <= results_allocated
    /\ ri + 1 <= Len(slots)
    /\ Len(text) + 1 <= Len(slots[ri + 1].line)

\* The undefined operations of the write of slot `ri`.
WriteUb(slots, ri, text) ==
    (IF ri + 1 > Len(slots) \/ ri + 1 > results_allocated THEN {"slot_oob_write"} ELSE {})
    \cup (IF ri + 1 <= Len(slots) /\ Len(text) + 1 > Len(slots[ri + 1].line)
          THEN {"line_overflow"} ELSE {})

\* Lines 83-102: hs_scan() reports its next match.
HsCallback ==
    /\ pc = "scan"
    /\ pending /= << >>
    /\ LET id == Head(pending)
           ri == result_index + 1
           text == CStr(buf, line, beyond)
           written == WriteSlot(results, ri, id, line_number, text)
       IN  /\ match_count' = match_count + 1
           /\ results' = written
           /\ IF BatchFull(ri, max_result_index)
              THEN /\ delivered' = Append(delivered, Batch(written, ri + 1, "callback"))
                   /\ result_index' = -1
              ELSE /\ delivered' = delivered
                   /\ result_index' = ri
           /\ ub' = ub \cup WriteUb(results, ri, text)
           /\ reported' = Append(reported,
                            [id |-> id, scan |-> Len(scans), line |-> scans[Len(scans)].text])
           /\ scans' = [scans EXCEPT ![Len(scans)].found = @ + 1]
    /\ pending' = Tail(pending)
    /\ pc' = "scan"
    /\ UNCHANGED << cfgvars, mainvars, localvars, ret, line_number, line,
                    max_result_index, results_ptr, gzvars, released, acquired,
                    bytes_left >>

\* Lines 90-92 when the write falls outside allocated memory and the process
\* is killed for it.
HsCallbackCrash ==
    /\ pc = "scan"
    /\ pending /= << >>
    /\ ~WriteInBounds(results, result_index + 1, CStr(buf, line, beyond))
    /\ ub' = ub \cup WriteUb(results, result_index + 1, CStr(buf, line, beyond))
    /\ pc' = "crashed"
    /\ UNCHANGED << cfgvars, mainvars, localvars, structvars, ret, gzvars, pending,
                    released, acquired, bytes_left, histvars >>

(* ---------------------- hyperscan_gz(): after hs_scan ------------------ *)
\* The check of line 222 written with > for >=.
QuotaReachedStrict(quota, count) == quota > 0 /\ count > quota

\* The check of line 222 without its test for a quota of 0.
QuotaReachedAlsoUnlimited(quota, count) == count >= quota

\* Line 222: the quota is set and reached.
QuotaReached(quota, count) == quota > 0 /\ count >= quota

\* Line 225 left out: the line is not counted.
NextLineNumberSame(n) == n

\* Line 225: state->line_number++.
NextLineNumber(n) == n + 1

\* Lines 217-225: hs_scan() returns HS_SUCCESS; the quota is checked, then the
\* line is counted.
ScanReturn ==
    /\ pc = "scan"
    /\ pending = << >>
    /\ IF QuotaReached(max_match_count, match_count)
       THEN /\ pc' = "gz_close"
            /\ line_number' = line_number
       ELSE /\ pc' = "read"
            /\ line_number' = NextLineNumber(line_number)
    /\ UNCHANGED << cfgvars, mainvars, localvars, ret, match_count, line,
                    max_result_index, result_index, results_ptr, results, gzvars,
                    pending, released, acquired, bytes_left, histvars, ub >>

\* Line 220 without its break: the loop goes on to the next read.
ScanErrorNextRead == "read"

\* Line 220: the break after a failed scan leaves the read loop.
ScanErrorNext == "gz_close"

\* Lines 217-221: hs_scan() returns an error, after any number of the line's
\* matches were reported.
ScanError ==
    /\ pc = "scan"
    /\ gz_ret' = HYPERSCANNER_SCAN
    /\ pending' = << >>
    /\ scans' = [scans EXCEPT ![Len(scans)].failed = TRUE]
    /\ pc' = ScanErrorNext
    /\ UNCHANGED << cfgvars, mainvars, localvars, structvars, ret, input_file, rest,
                    buf_ptr, buf, beyond, released, acquired, bytes_left, reported,
                    delivered, ub >>

\* Lines 227-230 and 308: gzclose(), free(buf), and hyperscan() takes the
\* return value.
GzClose ==
    /\ pc = "gz_close"
    /\ input_file' = IF input_file = "open" THEN "closed" ELSE input_file
    /\ buf_ptr' = IF buf_ptr = "held" THEN "freed" ELSE buf_ptr
    /\ buf' = << >>
    /\ released' = Release(released,
                     (IF input_file = "open" THEN { << "file", 0 >> } ELSE {})
                     \cup (IF buf_ptr = "held" THEN { << "buf", 0 >> } ELSE {}))
    /\ ret' = gz_ret
    /\ pc' = "flush"
    /\ UNCHANGED << cfgvars, mainvars, localvars, structvars, rest, beyond, gz_ret,
                    pending, acquired, bytes_left, histvars, ub >>

(* ------------------------- hyperscan(): the end ------------------------ *)
\* The check of line 311 written as result_index > 0.
ResultsRemainPositive(ri) == ri > 0

\* Line 311: results are left in the buffer.
ResultsRemain(ri) == ri /= -1

\* Lines 310-313: the results left in the buffer are sent.
Flush ==
    /\ pc = "flush"
    /\ delivered' = IF ResultsRemain(result_index)
                    THEN Append(delivered, Batch(results, result_index + 1, "flush"))
                    ELSE delivered
    /\ pc' = "cleanup"
    /\ UNCHANGED << cfgvars, mainvars, localvars, structvars, ret, gzvars, pending,
                    released, acquired, bytes_left, scans, reported, ub >>

\* Lines 317-324: what the cleanup block frees: the line buffers of the first
\* results_allocated slots, the state, the scratch and the database.
CleanupFrees ==
    (IF "results_allocated" \in uninit THEN {} ELSE LineResources(results_allocated))
    \cup (IF state = "held" THEN { << "state", 0 >> } ELSE {})
    \cup (IF "scratch" \notin uninit /\ scratch = "held" THEN { << "scratch", 0 >> } ELSE {})
    \cup (IF "db" \notin uninit /\ db = "held" THEN { << "db", 0 >> } ELSE {})

\* Lines 315-325 and 352: the cleanup block runs and hyperscan() returns to
\* main(), which stores the status and goes on to the next file. Locals the
\* path never initialised are read; here they happen to hold zero.
Cleanup ==
    /\ pc = "cleanup"
    /\ released' = Release(released, CleanupFrees)
    /\ state' = IF state = "held" THEN "freed" ELSE state
    /\ scratch' = IF "scratch" \notin uninit /\ scratch = "held" THEN "freed" ELSE scratch
    /\ db' = IF "db" \notin uninit /\ db = "held" THEN "freed" ELSE db
    /\ ub' = IF uninit /= {} THEN ub \cup {"uninit_local_read"} ELSE ub
    /\ main_ret' = ret
    /\ rets' = Append(rets, ret)
    /\ run_matches' = run_matches + Len(reported)
    /\ i' = i + 1
    /\ pc' = "main"
    /\ UNCHANGED << cfgvars, buffer_count, results_allocated, uninit, structvars,
                    ret, gzvars, pending, acquired, bytes_left, histvars >>

\* Lines 315-324 when a local the path never initialised holds something else
\* than zero: the loop dereferences state->results, or a wild pointer is freed.
CleanupCrash ==
    /\ pc = "cleanup"
    /\ uninit /= {}
    /\ ub' = ub \cup {"uninit_local_read"}
    /\ pc' = "crashed"
    /\ UNCHANGED << cfgvars, mainvars, localvars, structvars, ret, gzvars, pending,
                    released, acquired, bytes_left, histvars >>

(* -------------------------------- main() ------------------------------- *)
\* Lines 341 and 354: the loop is over, main() returns ret.
MainReturn ==
    /\ pc = "main"
    /\ ~LoopContinues(i, nfiles)
    /\ pc' = "done"
    /\ UNCHANGED << cfgvars, mainvars, localvars, structvars, ret, gzvars, pending,
                    released, acquired, bytes_left, histvars, ub >>

Next ==
    \/ HyperscanStateMem
    \/ HyperscanResultsMem
    \/ HyperscanLineMem
    \/ HyperscanDb
    \/ HyperscanScratch
    \/ HyperscanOk
    \/ GzOpen
    \/ ReadEnd
    \/ ReadLine
    \/ HsCallback
    \/ HsCallbackCrash
    \/ ScanReturn
    \/ ScanError
    \/ GzClose
    \/ Flush
    \/ Cleanup
    \/ CleanupCrash
    \/ MainReturn

Spec == Init /\ [][Next]_vars

SpecMain == InitMain /\ [][Next]_vars

(* ============================ the claims ============================== *)
RECURSIVE Concat(_)
Concat(batches) ==
    IF batches = << >> THEN << >>
    ELSE Head(batches).recs \o Concat(Tail(batches))

\* The records handed to the batch handler in this call, in delivery order.
DeliveredRecs == Concat(delivered)

\* The call is past its end-of-session flush (or skipped it on a failed
\* prerequisite): at the cleanup block, or back in main().
Finished == pc = "cleanup" \/ (pc \in {"main", "done"} /\ rets /= << >>)

\* The status the call returns or has returned.
Status == IF pc = "cleanup" THEN ret ELSE rets[Len(rets)]

\* The number of matches the first k hs_scan calls of this call reported.
RECURSIVE SumFound(_)
SumFound(k) == IF k = 0 THEN 0 ELSE scans[k].found + SumFound(k - 1)

\* A read that is z >= 1 zero bytes followed by a non-empty text without zero
\* bytes; TextOf is that text.
Zeros(raw) == Cardinality({k \in 1..Len(raw) : \A j \in 1..k : raw[j] = "0"})
TextOf(raw) == SubSeq(raw, Zeros(raw) + 1, Len(raw))
ZerosThenText(raw) ==
    /\ Zeros(raw) >= 1
    /\ Zeros(raw) < Len(raw)
    /\ \A k \in (Zeros(raw) + 1)..Len(raw) : raw[k] /= "0"

\* C1: for a batch capacity >= 1, once the call is past its flush the records
\* delivered, concatenated in delivery order, are the hs_callback invocations of
\* the call, one record each and in the same order: record k carries the id of
\* invocation k and the number of the line whose scan made it, so the line
\* numbers never decrease.
C1_DeliveredAreReported ==
    (buffer_count_arg >= 1 /\ Finished) =>
        /\ Len(DeliveredRecs) = Len(reported)
        /\ \A k \in 1..Len(reported) :
            /\ DeliveredRecs[k].id = reported[k].id
            /\ DeliveredRecs[k].line_number = reported[k].scan - 1
        /\ \A k \in 1..(Len(DeliveredRecs) - 1) :
            DeliveredRecs[k].line_number <= DeliveredRecs[k + 1].line_number

\* C1 witness: a finished call that delivered a full batch from the callback and
\* a partial batch at the flush, with records of two lines and of both patterns.
C1_Witness ==
    /\ buffer_count_arg >= 1
    /\ pc = "cleanup"
    /\ Len(delivered) >= 2
    /\ delivered[1].from = "callback"
    /\ delivered[Len(delivered)].from = "flush"
    /\ \E j, k \in 1..Len(DeliveredRecs) :
        /\ DeliveredRecs[j].line_number < DeliveredRecs[k].line_number
        /\ DeliveredRecs[j].id /= DeliveredRecs[k].id

\* C2: for a batch capacity >= 1, every batch handed to the handler, from the
\* callback or from the flush, has a count of at least 1 and at most the
\* buffer_count the caller supplied, and holds that many records.
C2_BatchCountInRange ==
    buffer_count_arg >= 1 =>
        \A k \in 1..Len(delivered) :
            /\ 1 <= delivered[k].count
            /\ delivered[k].count <= buffer_count_arg
            /\ Len(delivered[k].recs) = delivered[k].count

\* C2 witness: a call that delivered a batch of exactly buffer_count records
\* from the callback and a smaller one at the flush.
C2_Witness ==
    /\ buffer_count_arg >= 2
    /\ \E j, k \in 1..Len(delivered) :
        /\ delivered[j].from = "callback" /\ delivered[j].count = buffer_count_arg
        /\ delivered[k].from = "flush" /\ delivered[k].count < buffer_count_arg

\* C3: with a quota N > 0, no hs_scan call is made once the matches of the
\* lines scanned so far reach N (so the quota is looked at only between scan
\* calls, and the line that crosses it is scanned to its end); and once the call
\* is past its flush every match found was delivered, so the records delivered
\* exceed N by at most the matches of the last line scanned minus one.
C3_QuotaStopsAtLineEnd ==
    max_match_count > 0 =>
        /\ \A k \in 1..(Len(scans) - 1) : SumFound(k) < max_match_count
        /\ Finished =>
            /\ Len(DeliveredRecs) = SumFound(Len(scans))
            /\ Len(DeliveredRecs) >= max_match_count =>
                Len(DeliveredRecs) - max_match_count <= scans[Len(scans)].found - 1

\* C3 witness: a finished call whose last line scanned took the matches past
\* the quota, with input left unread behind it.
C3_Witness ==
    /\ max_match_count > 0
    /\ buffer_count_arg >= 1
    /\ pc = "cleanup"
    /\ ret = 0
    /\ Len(DeliveredRecs) > max_match_count
    /\ scans[Len(scans)].found >= 2
    /\ rest /= << >>

\* C4: a scan call that failed is the last scan call of its hyperscan() call;
\* once that call is past its flush it has delivered every record reported
\* before the failure exactly once, those of the partial batch included, and
\* its status is HYPERSCANNER_SCAN.
C4_ScanErrorFlushes ==
    /\ \A k \in 1..(Len(scans) - 1) : ~scans[k].failed
    /\ (Finished /\ scans /= << >> /\ scans[Len(scans)].failed) =>
        /\ Status = HYPERSCANNER_SCAN
        /\ Len(DeliveredRecs) = Len(reported)
        /\ \A k \in 1..Len(reported) :
            /\ DeliveredRecs[k].id = reported[k].id
            /\ DeliveredRecs[k].line = reported[k].line

\* C4 witness: a scan failed with a partial batch pending and input left
\* unread, and the flush delivered that batch.
C4_Witness ==
    /\ pc = "cleanup"
    /\ Len(scans) >= 2
    /\ scans[Len(scans)].failed
    /\ rest /= << >>
    /\ buffer_count_arg >= 2
    /\ delivered /= << >>
    /\ delivered[Len(delivered)].from = "flush"

\* C5: a call whose gzopen() failed makes no scan call, never invokes the
\* handler and returns HYPERSCANNER_GZ_OPEN; main() never returns before it has
\* called hyperscan() for every path, whatever the calls returned.
C5_OpenFailure ==
    /\ (input_file = "NULL" /\ pc /= "crashed") =>
        /\ scans = << >>
        /\ delivered = << >>
        /\ pc = "flush" => ret = HYPERSCANNER_GZ_OPEN
        /\ Finished => Status = HYPERSCANNER_GZ_OPEN
    /\ pc = "done" => Len(rets) = nfiles
    /\ (pc = "main" /\ Len(rets) < nfiles) => ENABLED HyperscanOk

\* C5 witness: the first file could not be opened and main() is about to call
\* hyperscan() for the second.
C5_Witness ==
    /\ pc = "main"
    /\ input_file = "NULL"
    /\ rets = << HYPERSCANNER_GZ_OPEN >>
    /\ nfiles >= 2

\* The status of the first call that failed, 0 when none did.
RECURSIVE FirstError(_)
FirstError(statuses) ==
    IF statuses = << >> THEN 0
    ELSE IF Head(statuses) /= 0 THEN Head(statuses)
    ELSE FirstError(Tail(statuses))

\* C6: main() returns 0 if and only if every file's call returned 0, and else
\* the status of the first call that failed (stated for a batch capacity >= 1).
C6_MainReturnsFirstError ==
    (buffer_count_arg >= 1 /\ pc = "done") => main_ret = FirstError(rets)

\* C7: when hyperscan() has returned, every resource the call acquired has been
\* released exactly once and nothing else has been released (stated for a batch
\* capacity >= 1).
C7_ReleasedExactlyOnce ==
    (buffer_count_arg >= 1 /\ pc \in {"main", "done"} /\ rets /= << >>) =>
        \A r \in Resources : released[r] = (IF r \in acquired THEN 1 ELSE 0)

\* C8: a read that is z >= 1 zero bytes followed by a text t is scanned as
\* exactly t; that line and every later line is scanned under the number of its
\* read (the count of the reads before it), and every record delivered for
\* that line carries t.
C8_LeadingZerosStripped ==
    \A k \in 1..Len(scans) :
        ZerosThenText(scans[k].raw) =>
            /\ scans[k].text = TextOf(scans[k].raw)
            /\ \A j \in k..Len(scans) : scans[j].line_number = j - 1
            /\ \A j \in 1..Len(DeliveredRecs) :
                DeliveredRecs[j].line_number = k - 1 =>
                    DeliveredRecs[j].line = TextOf(scans[k].raw)

\* C8 witness: the second read of a file is a zero byte followed by text, a
\* record of that line was delivered, and a third line was scanned.
C8_Witness ==
    /\ Len(scans) = 3
    /\ ZerosThenText(scans[2].raw)
    /\ \E j \in 1..Len(DeliveredRecs) :
        /\ DeliveredRecs[j].line_number = 1
        /\ DeliveredRecs[j].line = TextOf(scans[2].raw)

C10_CallbackBatchesHoldBufferCount ==
    buffer_count_arg >= 1 =>
        /\ \A k \in 1..Len(delivered) :
            /\ delivered[k].from = "callback" => delivered[k].count = buffer_count_arg
            /\ delivered[k].count < buffer_count_arg => delivered[k].from = "flush"
        /\ Cardinality({k \in 1..Len(delivered) : delivered[k].from = "flush"}) <= 1

\* C10 amended: every batch delivered from the callback holds exactly the
\* effective capacity, which is buffer_count, or max_match_count when
\* 0 < max_match_count < buffer_count; a batch with fewer records comes only
\* from the flush, which delivers at most once per call and last.
C10_CallbackBatchesHoldEffectiveCapacity ==
    buffer_count_arg >= 1 =>
        LET capacity == IF 0 < max_match_count /\ max_match_count < buffer_count_arg
                        THEN max_match_count ELSE buffer_count_arg
        IN  /\ \A k \in 1..Len(delivered) :
                /\ delivered[k].from = "callback" => delivered[k].count = capacity
                /\ delivered[k].count < capacity => delivered[k].from = "flush"
                /\ delivered[k].from = "flush" => k = Len(delivered)

\* C10 witness: the quota lowered the capacity, and the callback delivered a
\* batch of max_match_count records, fewer than the caller's buffer_count.
C10_Witness ==
    /\ 0 < max_match_count
    /\ max_match_count < buffer_count_arg
    /\ \E k \in 1..Len(delivered) :
        /\ delivered[k].from = "callback"
        /\ delivered[k].count = max_match_count

\* A hyperscan() call has been entered (it is running, or it was the last one
\* to return).
InCall == pc \notin {"main", "done"} \/ rets /= << >>

\* A result slot has been written: one inside the results array, or one behind
\* its end.
SlotWritten ==
    \/ \E k \in 1..Len(results) : results[k].id /= -1
    \/ "slot_oob_write" \in ub

\* C11: a call with buffer_count 0 is rejected: it never opens the file, makes
\* no hs_scan call, never writes a result slot, and the status it returns is
\* not 0.
C11_CapacityZeroRejected ==
    (buffer_count_arg = 0 /\ InCall) =>
        /\ input_file = "none"
        /\ scans = << >>
        /\ ~SlotWritten
        /\ Finished => Status /= 0

\* The status that names the first prerequisite the call did not get, 0 when
\* it got them all: the state struct, the results array, every slot's line
\* buffer, the pattern database, the scratch.
PrerequisiteStatus ==
    IF << "state", 0 >> \notin acquired THEN HYPERSCANNER_STATE_MEM
    ELSE IF << "results", 0 >> \notin acquired THEN HYPERSCANNER_COMPILE_MEM
    ELSE IF ~(LineResources(buffer_count) \subseteq acquired) THEN HYPERSCANNER_COMPILE_MEM
    ELSE IF << "db", 0 >> \notin acquired THEN HYPERSCANNER_DB
    ELSE IF << "scratch", 0 >> \notin acquired THEN HYPERSCANNER_SCRATCH
    ELSE 0

\* What a call whose prerequisite failed does before it reaches the end of its
\* cleanup block: no open, no scan, no delivery, and ret names the step.
PrerequisiteFailureSkipsScan ==
    (InCall /\ PrerequisiteStatus /= 0) =>
        /\ input_file = "none"
        /\ scans = << >>
        /\ delivered = << >>
        /\ pc = "cleanup" => ret = PrerequisiteStatus
        /\ pc \in {"main", "done"} => rets[Len(rets)] = PrerequisiteStatus

\* C12: a call whose prerequisite failed (state, results storage, database or
\* scratch) does not open the file, makes no hs_scan call, never invokes the
\* batch handler, and returns the non-zero status that names the failed step:
\* it does return, the process is not ended under it (the last part stated for
\* a batch capacity >= 1).
C12_PrerequisiteFailureReturnsStatus ==
    /\ PrerequisiteFailureSkipsScan
    /\ (buffer_count_arg >= 1 /\ InCall /\ PrerequisiteStatus /= 0) => pc /= "crashed"

LoopOver == pc \in {"gz_close", "flush", "cleanup"} \/ (pc \in {"main", "done"} /\ rets /= << >>)

\* C14: with max_match_count 0 the read loop of a call that opened its file and
\* got its read buffer ends only at end of input or at a failed scan, however
\* many matches were found: when it is over and no scan failed, nothing of the
\* file is left unread, and every read was scanned, in read order.
C14_UnlimitedReadsToEnd ==
    max_match_count = 0 =>
        /\ \A k \in 1..Len(scans) : scans[k].line_number = k - 1 /\ scans[k].raw /= << >>
        /\ (/\ LoopOver
            /\ input_file \in {"open", "closed"}
            /\ buf_ptr \in {"held", "freed"}
            /\ scans = << >> \/ ~scans[Len(scans)].failed) => rest = << >>

\* C14 witness: without a quota a call scanned three lines to the end of the
\* file and found at least three matches, more than any quota of the model.
C14_Witness ==
    /\ max_match_count = 0
    /\ buffer_count_arg >= 1
    /\ pc = "cleanup"
    /\ ret = 0
    /\ Len(scans) = 3
    /\ SumFound(3) > MaxQuota
    /\ rest = << >>

\* `text` is a run of consecutive bytes of `raw`.
SpanOf(text, raw) ==
    \E a \in 1..(Len(raw) + 1) :
        /\ a + Len(text) - 1 <= Len(raw)
        /\ text = SubSeq(raw, a, a + Len(text) - 1)

\* C15: for every read, the string handed to hs_scan is a run of the bytes
\* gzgets() returned for that read: it holds no byte an earlier read left in
\* the buffer and nothing behind the line's terminator (stated for calls that
\* have read no never-written byte, where every byte scanned is one the
\* program wrote).
C15_ScannedSpanWithinRead ==
    ("uninit_read" \notin ub /\ "overread" \notin ub) =>
        \A k \in 1..Len(scans) : SpanOf(scans[k].text, scans[k].raw)

\* The call got past its set-up: it is about to open the file, or has tried to.
PastSetup == pc = "gz_open" \/ (InCall /\ input_file /= "none")

\* C16: in a call with a batch capacity >= 1, also one the quota lowered, the
\* fill index stays in -1..max_result_index; every slot written has an index in
\* 0..capacity-1 and a line buffer that was allocated; the records not yet
\* delivered are exactly the result_index + 1 filled slots, fewer than the
\* capacity whenever hs_callback has returned, so after a delivery of a full
\* batch the index is -1.
C16_FillIndexInRange ==
    (buffer_count_arg >= 1 /\ PastSetup) =>
        /\ max_result_index = buffer_count - 1
        /\ buffer_count \in 1..buffer_count_arg
        /\ -1 <= result_index
        /\ result_index <= max_result_index
        /\ "slot_oob_write" \notin ub
        /\ Len(results) = buffer_count
        /\ results_allocated = buffer_count
        /\ \A k \in 1..Len(results) :
            /\ Len(results[k].line) >= buffer_size
            /\ results[k].id /= -1 => k <= buffer_count
        /\ pc \in {"read", "scan", "gz_close", "flush"} =>
            /\ Len(reported) - Len(DeliveredRecs) = result_index + 1
            /\ result_index + 1 < buffer_count
        /\ (delivered /= << >> /\ Len(DeliveredRecs) = Len(reported)
                /\ pc \in {"read", "scan", "gz_close", "flush"}) => result_index = -1

\* C16 witness: the quota lowered the capacity to 1, slot 0 was filled and
\* delivered twice, and the index is back at -1 with the scan still going on.
C16_Witness ==
    /\ buffer_count_arg = 2
    /\ buffer_count = 1
    /\ pc = "scan"
    /\ Len(delivered) = 2
    /\ delivered[2].from = "callback"
    /\ result_index = -1

\* C17: for a batch capacity >= 1, every strcpy of hs_callback into a slot's
\* line buffer writes at most buffer_size bytes, terminator included: the
\* string copied has at most buffer_size - 1 bytes and no slot's line buffer is
\* written behind its end.
C17_CopyFitsLineBuffer ==
    buffer_count_arg >= 1 =>
        /\ \A k \in 1..Len(reported) : Len(reported[k].line) + 1 <= buffer_size
        /\ "line_overflow" \notin ub
        /\ \A k \in 1..Len(results) : Len(results[k].line) <= buffer_size

\* C18: whichever step failed first, the cleanup block is entered with every
\* local it reads initialised (results_allocated, db, scratch), it never
\* reaches through a state pointer or results pointer that is NULL, and it
\* releases only what the call acquired (stated for a batch capacity >= 1).
C18_CleanupReadsOnlyInitialised ==
    (buffer_count_arg >= 1 /\ InCall) =>
        /\ pc = "cleanup" => uninit = {}
        /\ "uninit_local_read" \notin ub
        /\ \A r \in Resources : released[r] > 0 => r \in acquired

\* The line buffers of the result slots are all still allocated.
SlotStorageLive == \A k \in 0..MaxBufferCount : released[<< "line", k >>] = 0

\* The number of records in the first k batches delivered.
RECURSIVE RecsThrough(_)
RecsThrough(k) == IF k = 0 THEN 0 ELSE delivered[k].count + RecsThrough(k - 1)

\* What holds in every state of a call with a batch capacity >= 1: a batch
\* delivered from the callback ends with a record of the scan call it was
\* delivered in and holds the records reported since the batch before it, none
\* overwritten by a later one; while hs_scan runs no full batch waits; a flush
\* delivery is the last delivery and comes after the read loop, so after the
\* last scan call.
DeliveriesInOrder ==
    buffer_count_arg >= 1 =>
        /\ \A k \in 1..Len(delivered) :
            /\ RecsThrough(k) <= Len(reported)
            /\ \A j \in 1..delivered[k].count :
                /\ delivered[k].recs[j].id = reported[RecsThrough(k - 1) + j].id
                /\ delivered[k].recs[j].line = reported[RecsThrough(k - 1) + j].line
            /\ delivered[k].from = "flush" =>
                /\ k = Len(delivered)
                /\ pc \in {"cleanup", "main", "done", "crashed"}
                /\ RecsThrough(k) = Len(reported)
        /\ pc \in {"read", "scan", "gz_close", "flush"} =>
            Len(reported) - RecsThrough(Len(delivered)) < buffer_count

\* What holds of every step of a call: the batch handler is invoked only while
\* every slot's line buffer is allocated, a delivery from the callback is made
\* in the step that reports the batch's last record, and no hs_scan call is
\* made once the flush has delivered.
DeliveryStep ==
    (pc /= "main" /\ delivered' /= delivered) =>
        /\ SlotStorageLive
        /\ Len(delivered') = Len(delivered) + 1
        /\ pc = "scan" =>
            /\ delivered'[Len(delivered')].from = "callback"
            /\ Len(reported') = Len(reported) + 1
            /\ buffer_count_arg >= 1 => RecsThrough(Len(delivered))' = Len(reported')
        /\ pc /= "scan" =>
            /\ pc = "flush"
            /\ delivered'[Len(delivered')].from = "flush"
            /\ scans' = scans

\* C19: within a call, every full-batch delivery happens inside the scan call
\* that produced its last record and before the next record is written; the
\* end-of-session flush happens after the last scan call; the batch handler is
\* never invoked after slot storage has been released.
C19_DeliveriesOrdered == []DeliveriesInOrder /\ [][DeliveryStep]_vars

\* C19 witness: a call delivered a full batch from inside its second scan call,
\* then a partial batch at the flush, and has now released the slot storage.
C19_Witness ==
    /\ buffer_count_arg = 2
    /\ pc = "main"
    /\ rets = << 0 >>
    /\ ~SlotStorageLive
    /\ Len(delivered) = 2
    /\ delivered[1].from = "callback"
    /\ delivered[1].count = 2
    /\ delivered[1].recs[2].line_number = 1
    /\ delivered[2].from = "flush"

\* C20: for every file of the run, main() calls hyperscan() with the one
\* configuration it set up: the flags and the pattern id it passes are values
\* it wrote (the id 0), and its writes stay inside its one-element arrays
\* (stated for a batch capacity >= 1 and a call that got past its set-up after
\* calls that all returned 0).
C20_MainPassesOneConfiguration ==
    (buffer_count_arg >= 1 /\ PastSetup /\ \A k \in 1..i : rets[k] = 0) =>
        /\ "main_oob_write" \notin ub
        /\ "main_uninit_read" \notin ub

\* C21: in a run over several files the sessions are independent. Each call
\* that got past its set-up starts with match_count 0, line_number 0, an empty
\* batch and unwritten slots, and match_count counts the matches of this call
\* only, so the quota is counted per file; every record delivered is a record
\* reported in this call, under the number of one of this call's reads; and for
\* a batch capacity >= 1 a call that has returned has delivered every record it
\* reported, so none is pending when the next call starts.
C21_SessionsIndependent ==
    /\ pc = "gz_open" =>
        /\ match_count = 0
        /\ line_number = 0
        /\ result_index = -1
        /\ scans = << >> /\ reported = << >> /\ delivered = << >>
        /\ \A k \in 1..Len(results) : results[k].id = -1
    /\ (PastSetup /\ pc /= "crashed") => match_count = Len(reported)
    /\ buffer_count_arg >= 1 =>
        /\ \A j \in 1..Len(DeliveredRecs) :
            /\ j <= Len(reported)
            /\ DeliveredRecs[j].id = reported[j].id
            /\ DeliveredRecs[j].line_number = reported[j].scan - 1
            /\ reported[j].scan \in 1..Len(scans)
        /\ (pc \in {"main", "done"} /\ rets /= << >>) =>
            Len(DeliveredRecs) = Len(reported)

\* C21 witness: the first file's call reached the quota and returned; the call
\* for the second file scanned its first line as line 0, found a match there
\* and delivered it.
C21_Witness ==
    /\ nfiles = 2
    /\ i = 1
    /\ rets = << 0 >>
    /\ max_match_count = 1
    /\ run_matches >= max_match_count
    /\ pc = "cleanup"
    /\ ret = 0
    /\ match_count = 1
    /\ Len(DeliveredRecs) = 1
    /\ DeliveredRecs[1].line_number = 0

\* The program is sequential and every call it makes is taken to return: a
\* step that can be taken is taken.
SpecFair == Init /\ [][Next]_vars /\ WF_vars(Next)

\* The process ended inside hs_scan, in the write of hs_callback: a matcher
\* call that did not return.
MatcherCallLost == pc = "crashed" /\ input_file /= "none"

\* The call has returned to main().
Returned == pc \in {"main", "done"} /\ rets /= << >>

\* Every call that got past its set-up leaves the read loop and reaches the
\* cleanup block, unless a matcher call is lost.
ReachesCleanup == (pc = "gz_open") ~> (pc = "cleanup" \/ MatcherCallLost)

\* The flush check of lines 310-313 is on the only way from the read loop to the
\* cleanup block and is passed once: it is entered from gzclose() only, left
\* for the cleanup block only, and a call that got past its set-up enters the
\* cleanup block from it only.
FlushStep ==
    /\ (pc' = "flush" /\ pc /= "flush") => pc = "gz_close"
    /\ (pc = "flush" /\ pc' /= "flush") => pc' = "cleanup"
    /\ (pc' = "cleanup" /\ pc /= "cleanup" /\ input_file' /= "none") => pc = "flush"
    /\ (pc = "gz_close" /\ pc' /= "gz_close") => pc' = "flush"

\* A call whose cleanup block reads only locals the path initialised returns.
CleanCleanupReturns == (pc = "cleanup" /\ uninit = {}) ~> Returned

\* What holds of every call: the read loop ends and the cleanup block is
\* reached, the flush check is passed once on the way, and a call that enters
\* the cleanup block with its locals initialised returns.
LoopEndsAndFlushesOnce == ReachesCleanup /\ CleanCleanupReturns /\ [][FlushStep]_vars

\* C22: when every matcher, gzgets() and handler call returns, every
\* hyperscan() call reaches its cleanup block and returns to its caller; the
\* read loop ends; and a call whose prerequisites succeeded passes the flush
\* check exactly once, before the cleanup block (the return stated for a batch
\* capacity >= 1).
C22_EveryCallReturns ==
    /\ ReachesCleanup
    /\ (buffer_count_arg >= 1 /\ pc = "cleanup") ~> Returned
    /\ [][FlushStep]_vars

\* C23: hyperscan_gz() returns 0 only if the file was opened and the read
\* buffer was allocated; a call whose read buffer could not be allocated
\* returns a status other than 0 (stated for a batch capacity >= 1).
C23_BufferFailureReported ==
    (buffer_count_arg >= 1 /\ pc \in {"flush", "cleanup"} /\ input_file /= "none" /\ ret = 0) =>
        /\ input_file = "closed"
        /\ buf_ptr = "freed"

====
